---- MODULE Spec2Model ----
(***************************************************************************)
(* A model of backend/ai_generator.py: AIGenerator.generate_response and   *)
(* the bounded tool-calling loop of AIGenerator._handle_tool_execution.    *)
(*                                                                         *)
(* The model service (client.messages.create) and the tool manager         *)
(* (tool_manager.execute_tool) are the environment: a model call is issued *)
(* by one step and answered (a response, or a raised API error) by the     *)
(* next; a tool dispatch returns a string or raises.                       *)
(*                                                                         *)
(* Python values: a str is a TLA+ string; a list is a sequence; a dict is  *)
(* a record whose DOMAIN is its key set; an object with attributes (a      *)
(* content block) is a record whose DOMAIN is its attribute set, so that   *)
(* hasattr(b, "text") is "text" \in DOMAIN b.  None and the empty list     *)
(* (both falsy, and told apart nowhere in the code) are the empty          *)
(* sequence; None and the empty string likewise are "".                    *)
(***************************************************************************)
EXTENDS Integers, Sequences, FiniteSets, TLC

VARIABLES
    pc,                   \* position of the call: idle, await_initial, dispatch,
                          \* await_round, returned, raised
    query,                \* generate_response argument
    conversation_history, \* generate_response argument ("" is None or "")
    tools,                \* generate_response argument (<<>> is None or [])
    tool_manager,         \* generate_response argument: TRUE iff one was supplied
    api_params,           \* the dict built at lines 80-89
    current_response,     \* `response` (line 92), then `current_response`
    messages,             \* the list of _handle_tool_execution
    round_num,            \* the loop variable of line 129
    tool_results,         \* the list of line 131
    block_idx,            \* position of the inner loop of line 132 (1-based)
    responses,            \* every response messages.create returned in this
                          \* generate_response call, in order
    requests,             \* keyword arguments of every messages.create call of
                          \* this generate_response call, in order, as sent
    executed,             \* every execute_tool call of this call, in order
    result,               \* the returned string (when pc = "returned")
    exception,            \* the exception that left the call (when pc = "raised")
    search_results,       \* what the search index gave the latest execute call
    tool_output,          \* the string the latest execute call returned
    last_sources,         \* the search tool's last_sources list
    earlier_calls         \* TRUE iff the call in progress, or the last one, is
                          \* not the first call of generate_response on this
                          \* engine

vars == <<pc, query, conversation_history, tools, tool_manager, api_params,
          current_response, messages, round_num, tool_results, block_idx,
          responses, requests, executed, result, exception,
          search_results, tool_output, last_sources, earlier_calls>>

\* The state of the search tool.
search == <<search_results, tool_output, last_sources>>

(***************************************************************************)
(* Program constants.                                                      *)
(***************************************************************************)
MAX_TOOL_ROUNDS == 2

SYSTEM_PROMPT == "You are an AI assistant specialized in course materials."

base_params == [model |-> "claude-test", temperature |-> 0, max_tokens |-> 800]

EMPTY_RESPONSE == "Received empty response from AI service."
ROUNDS_EXHAUSTED == "Could not generate a text response within the allowed tool-use rounds."
UNEXPECTED_FORMAT == "Received unexpected response format from AI service."
NO_TOOL_MANAGER == "Unable to search: tool manager not configured."
\* The malformed-tool_use string taken from the empty-response string.
MALFORMED_AS_EMPTY == "Received empty response from AI service."
MALFORMED_TOOL_USE == "Received malformed tool_use response: no tool_use blocks found."

(***************************************************************************)
(* Bounds of the model.                                                    *)
(***************************************************************************)
MaxBlocks == 2            \* longest response content
MaxFragments == 2         \* most fragments of one search

(***************************************************************************)
(* The environment's values: what the caller passes, what the model        *)
(* service answers, what a tool returns or raises.                         *)
(***************************************************************************)
\* What the caller asks: a first question, asked without history, and a
\* follow-up, asked with the history of the session so far.
Questions == {<<"What is Python?", "">>, <<"Explain loops", "User asked X.">>}
Catalogs == {<<>>, <<[name |-> "search_course_content"]>>}
ToolOutputs == {"Search results: Python is great."}
ToolErrors == {"Connection timeout"}
ApiErrors == {"AuthenticationError"}
StopReasons == {"end_turn", "tool_use"}
BlockKinds == {"text", "tool_use", "thinking"}

\* Python's `sub in s` on strings.
Contains(s, sub) ==
    \E i \in 1..(Len(s) - Len(sub) + 1) : SubSeq(s, i, i + Len(sub) - 1) = sub

\* A TextBlock: type and text.  The text of the n-th model call's response.
TextBlock(n) == [type |-> "text", text |-> "Answer " \o ToString(n)]

\* A ToolUseBlock: type, name, input, id and no text attribute.  The service
\* gives every tool-use block its own id: here the pair (call, position).
ToolUseBlock(n, i) ==
    [type |-> "tool_use", name |-> "search_course_content",
     input |-> [query |-> "test"], id |-> <<"tu", n, i>>]

\* Any other block (a thinking block): a type, neither text nor tool_use.
OtherBlock == [type |-> "thinking", thinking |-> "hmm"]

MkBlock(kind, n, i) ==
    CASE kind = "text" -> TextBlock(n)
      [] kind = "tool_use" -> ToolUseBlock(n, i)
      [] OTHER -> OtherBlock

\* The kinds of the blocks of a content, in order.  The service emits a
\* thinking block, if any, before the text and tool-use blocks.
Shapes ==
    {sh \in UNION {[1..k -> BlockKinds] : k \in 0..MaxBlocks} :
        \A i \in 2..Len(sh) : sh[i] # "thinking"}

\* The responses the service may give to the n-th model call of one
\* generate_response call: any stop_reason with any content.
Responses(n) ==
    {[stop_reason |-> s, content |-> [i \in 1..Len(sh) |-> MkBlock(sh[i], n, i)]] :
        s \in StopReasons, sh \in Shapes}

NoResponse == [stop_reason |-> "", content |-> <<>>]

(***************************************************************************)
(* Pure parts of the code.                                                 *)
(***************************************************************************)
\* A message dict.  ctype is the Python type of its content (str or list).
UserTurn(q) == [role |-> "user", ctype |-> "str", content |-> q]
\* AssistantTurn with the role of the tool-result turn.
AssistantTurnAsUser(content) == [role |-> "user", ctype |-> "list", content |-> content]
AssistantTurn(content) == [role |-> "assistant", ctype |-> "list", content |-> content]
ToolResultTurn(results) == [role |-> "user", ctype |-> "list", content |-> results]

\* Lines 73-77.
SystemContent(h) ==
    IF h # "" THEN SYSTEM_PROMPT \o "\n\nPrevious conversation:\n" \o h
              ELSE SYSTEM_PROMPT

\* WithTools without the tool_choice key.
WithToolsNoChoice(params, t) ==
    params @@ [tools |-> t]

\* The two keys added at lines 88-89 and 164-165.
WithTools(params, t) ==
    params @@ [tools |-> t, tool_choice |-> [type |-> "auto"]]

\* InitialParams that starts from the message list the engine was left with.
InitialParamsKeepsMessages(q, h, t) ==
    LET p == base_params @@ [messages |-> Append(messages, UserTurn(q)),
                             system |-> SystemContent(h)]
    IN IF t # <<>> THEN WithTools(p, t) ELSE p

\* Lines 80-89.
InitialParams(q, h, t) ==
    LET p == base_params @@ [messages |-> <<UserTurn(q)>>, system |-> SystemContent(h)]
    IN IF t # <<>> THEN WithTools(p, t) ELSE p

\* ExtractText without its tool-use case: an unresolved tool_use response
\* falls through to the unexpected-format string.
ExtractTextNoToolUseCase(response) ==
    IF response.content = <<>> THEN EMPTY_RESPONSE
    ELSE LET first == response.content[1]
         IN IF "text" \in DOMAIN first THEN first.text ELSE UNEXPECTED_FORMAT

\* ExtractText that takes an empty content for an unexpected format.
ExtractTextEmptyAsUnexpected(response) ==
    IF response.content = <<>> THEN UNEXPECTED_FORMAT
    ELSE LET first == response.content[1]
         IN IF "text" \in DOMAIN first THEN first.text
            ELSE IF "type" \in DOMAIN first /\ first.type = "tool_use"
                 THEN ROUNDS_EXHAUSTED
                 ELSE UNEXPECTED_FORMAT

\* Lines 102-111.
ExtractText(response) ==
    IF response.content = <<>> THEN EMPTY_RESPONSE
    ELSE LET first == response.content[1]
         IN IF "text" \in DOMAIN first THEN first.text
            ELSE IF "type" \in DOMAIN first /\ first.type = "tool_use"
                 THEN ROUNDS_EXHAUSTED
                 ELSE UNEXPECTED_FORMAT

\* ToolResultOk that takes the id of the first tool-use block of the current
\* response instead of the id of the block it dispatched.
ToolResultOkFirstBlockId(block, out) ==
    LET tus == SelectSeq(current_response.content, LAMBDA b : b.type = "tool_use")
    IN [type |-> "tool_result", tool_use_id |-> tus[1].id, content |-> out]

\* ToolResultOk that tags the result as an error.
ToolResultOkFlagged(block, out) ==
    [type |-> "tool_result", tool_use_id |-> block.id, content |-> out,
     is_error |-> TRUE]

\* Lines 136-140.
ToolResultOk(block, out) ==
    [type |-> "tool_result", tool_use_id |-> block.id, content |-> out]

\* ToolResultError that drops the exception's message and the error flag.
ToolResultErrorUnflagged(block, exc) ==
    [type |-> "tool_result", tool_use_id |-> block.id,
     content |-> "Error executing tool"]

\* Lines 142-147.
ToolResultError(block, exc) ==
    [type |-> "tool_result", tool_use_id |-> block.id,
     content |-> "Error executing tool: " \o exc, is_error |-> TRUE]

\* WantsTools that never lets the exchange end: every response is taken as
\* a request for tools.
WantsToolsAlways(response) == TRUE

\* WantsTools decided by the content instead of the stop_reason.
WantsToolsByContent(response) ==
    \E i \in 1..Len(response.content) : response.content[i].type = "tool_use"

\* Lines 95 and 171: the response asks for tools.
WantsTools(response) == response.stop_reason = "tool_use"

\* HasToolManager without the check of line 96.
HasToolManagerUnchecked == TRUE

\* Line 96: `if tool_manager`.
HasToolManager == tool_manager

\* Line 133.
IsToolUse(block) == block.type = "tool_use"

\* NoResults without the check of line 149.
NoResultsUnchecked(results) == FALSE

\* Line 149: `if not tool_results`.
NoResults(results) == results = <<>>

\* InRange off by one: a loop of MAX_TOOL_ROUNDS + 1 rounds.
InRangeOffByOne(r) == r <= MAX_TOOL_ROUNDS

\* Line 129: range(MAX_TOOL_ROUNDS) yields r.
InRange(r) == r < MAX_TOOL_ROUNDS

\* AllowAnotherRound that never withholds the tools.
AllowAnotherRoundAlways(r) == r < MAX_TOOL_ROUNDS

\* Line 154.
AllowAnotherRound(r) == r < MAX_TOOL_ROUNDS - 1

\* RoundParams that takes the instruction text alone for the system content.
RoundParamsNoHistory(msgs, sys, t, r) ==
    LET p == base_params @@ [messages |-> msgs, system |-> SYSTEM_PROMPT]
    IN IF AllowAnotherRound(r) /\ t # <<>> THEN WithTools(p, t) ELSE p

\* Lines 156-165.  `t` is initial_api_params.get("tools"): <<>> when absent.
RoundParams(msgs, sys, t, r) ==
    LET p == base_params @@ [messages |-> msgs, system |-> sys]
    IN IF AllowAnotherRound(r) /\ t # <<>> THEN WithTools(p, t) ELSE p

\* Line 127.
ParamsTools(params) == IF "tools" \in DOMAIN params THEN params.tools ELSE <<>>

(***************************************************************************)
(* Initial state: the engine is constructed, no call is in progress.       *)
(***************************************************************************)
Init ==
    /\ pc = "idle"
    /\ query = ""
    /\ conversation_history = ""
    /\ tools = <<>>
    /\ tool_manager = FALSE
    /\ api_params = base_params
    /\ current_response = NoResponse
    /\ messages = <<>>
    /\ round_num = 0
    /\ tool_results = <<>>
    /\ block_idx = 1
    /\ responses = <<>>
    /\ requests = <<>>
    /\ executed = <<>>
    /\ result = ""
    /\ exception = ""
    /\ search_results = [documents |-> <<>>, metadata |-> <<>>, error |-> ""]
    /\ tool_output = ""
    /\ last_sources = <<>>
    /\ earlier_calls = FALSE

args == <<query, conversation_history, tools, tool_manager>>
locals == <<messages, round_num, tool_results, block_idx>>

(***************************************************************************)
(* generate_response, lines 54-92: the call starts, builds api_params and  *)
(* issues the initial model call.  Everything local starts afresh.         *)
(***************************************************************************)
GenerateResponse(q, h, t, tm) ==
    /\ pc \in {"idle", "returned", "raised"}
    /\ query' = q
    /\ conversation_history' = h
    /\ tools' = t
    /\ tool_manager' = tm
    /\ api_params' = InitialParams(q, h, t)
    /\ requests' = <<InitialParams(q, h, t)>>
    /\ responses' = <<>>
    /\ current_response' = NoResponse
    /\ messages' = <<>>
    /\ round_num' = 0
    /\ tool_results' = <<>>
    /\ block_idx' = 1
    /\ executed' = <<>>
    /\ result' = ""
    /\ exception' = ""
    /\ pc' = "await_initial"
    /\ earlier_calls' = (pc # "idle")
    /\ UNCHANGED search

\* `return s`.
Return(s) ==
    /\ pc' = "returned"
    /\ result' = s

\* The head of the for loop of line 129 for index r, entered with response
\* resp: the next round starts (line 131), or the loop is over and line 177
\* returns.
LoopHead(r, resp) ==
    IF InRange(r)
    THEN /\ round_num' = r
         /\ tool_results' = <<>>
         /\ block_idx' = 1
         /\ pc' = "dispatch"
         /\ UNCHANGED result
    ELSE /\ Return(ExtractText(resp))
         /\ UNCHANGED <<round_num, tool_results, block_idx>>

(***************************************************************************)
(* Lines 92-100 and 123-129: the initial model call returns `resp`.        *)
(***************************************************************************)
InitialResponse(resp) ==
    /\ pc = "await_initial"
    /\ current_response' = resp
    /\ responses' = Append(responses, resp)
    /\ IF WantsTools(resp)
       THEN IF HasToolManager
            THEN /\ messages' = Append(api_params.messages, AssistantTurn(resp.content))
                 /\ LoopHead(0, resp)
            ELSE /\ Return(NO_TOOL_MANAGER)
                 /\ UNCHANGED locals
       ELSE /\ Return(ExtractText(resp))
            /\ UNCHANGED locals
    /\ UNCHANGED <<earlier_calls, search, args, api_params, requests, executed, exception>>

(***************************************************************************)
(* Lines 132-147: one iteration of the loop over the blocks of the current *)
(* response.                                                               *)
(***************************************************************************)
AtBlock ==
    /\ pc = "dispatch"
    /\ block_idx <= Len(current_response.content)

CurrentBlock == current_response.content[block_idx]

\* Line 133 is false: the block is passed over.
SkipBlock ==
    /\ AtBlock
    /\ ~IsToolUse(CurrentBlock)
    /\ block_idx' = block_idx + 1
    /\ UNCHANGED <<earlier_calls, search, pc, args, api_params, current_response, messages, round_num,
                   tool_results, responses, requests, executed, result, exception>>

\* The record of one execute_tool call: its arguments (line 135), the block
\* and the round it was made for, and how it ended: "returned" with the
\* string, or "raised" with the exception's message.
Execution(block, outcome, value) ==
    [name |-> block.name, input |-> block.input, block |-> block.id,
     round |-> round_num, outcome |-> outcome, value |-> value]

\* Lines 135-140: execute_tool returns `out`.
ExecuteToolReturns(out) ==
    /\ AtBlock
    /\ IsToolUse(CurrentBlock)
    /\ tool_results' = Append(tool_results, ToolResultOk(CurrentBlock, out))
    /\ executed' = Append(executed, Execution(CurrentBlock, "returned", out))
    /\ block_idx' = block_idx + 1
    /\ UNCHANGED <<earlier_calls, search, pc, args, api_params, current_response, messages, round_num,
                   responses, requests, result, exception>>

\* ExecuteToolRaises without the except clause: the exception leaves the call.
ExecuteToolRaisesEscapes(exc) ==
    /\ AtBlock
    /\ IsToolUse(CurrentBlock)
    /\ executed' = Append(executed, Execution(CurrentBlock, "raised", exc))
    /\ pc' = "raised"
    /\ exception' = exc
    /\ UNCHANGED <<earlier_calls, search, args, api_params, current_response, locals, responses,
                   requests, result>>

\* ExecuteToolRaises that leaves the loop over the blocks after the error.
ExecuteToolRaisesStops(exc) ==
    /\ AtBlock
    /\ IsToolUse(CurrentBlock)
    /\ tool_results' = Append(tool_results, ToolResultError(CurrentBlock, exc))
    /\ executed' = Append(executed, Execution(CurrentBlock, "raised", exc))
    /\ block_idx' = Len(current_response.content) + 1
    /\ UNCHANGED <<earlier_calls, search, pc, args, api_params, current_response, messages, round_num,
                   responses, requests, result, exception>>

\* Lines 135, 141-147: execute_tool raises an Exception with message `exc`.
ExecuteToolRaises(exc) ==
    /\ AtBlock
    /\ IsToolUse(CurrentBlock)
    /\ tool_results' = Append(tool_results, ToolResultError(CurrentBlock, exc))
    /\ executed' = Append(executed, Execution(CurrentBlock, "raised", exc))
    /\ block_idx' = block_idx + 1
    /\ UNCHANGED <<earlier_calls, search, pc, args, api_params, current_response, messages, round_num,
                   responses, requests, result, exception>>

\* EndOfBlocks with the model call inside the loop over the blocks: it is
\* issued as soon as there is a result.
EndOfBlocksInsideLoop ==
    /\ pc = "dispatch"
    /\ block_idx > Len(current_response.content) \/ tool_results # <<>>
    /\ IF NoResults(tool_results)
       THEN /\ Return(MALFORMED_TOOL_USE)
            /\ UNCHANGED <<messages, requests>>
       ELSE /\ messages' = Append(messages, ToolResultTurn(tool_results))
            /\ requests' = Append(requests,
                                  RoundParams(messages', api_params.system,
                                              ParamsTools(api_params), round_num))
            /\ pc' = "await_round"
            /\ UNCHANGED result
    /\ UNCHANGED <<earlier_calls, search, args, api_params, current_response, round_num, tool_results,
                   block_idx, responses, executed, exception>>

(***************************************************************************)
(* Lines 149-167: the blocks are done.  No result: return the malformed    *)
(* string.  Otherwise append the results and issue the round's model call. *)
(***************************************************************************)
EndOfBlocks ==
    /\ pc = "dispatch"
    /\ block_idx > Len(current_response.content)
    /\ IF NoResults(tool_results)
       THEN /\ Return(MALFORMED_TOOL_USE)
            /\ UNCHANGED <<messages, requests>>
       ELSE /\ messages' = Append(messages, ToolResultTurn(tool_results))
            /\ requests' = Append(requests,
                                  RoundParams(messages', api_params.system,
                                              ParamsTools(api_params), round_num))
            /\ pc' = "await_round"
            /\ UNCHANGED result
    /\ UNCHANGED <<earlier_calls, search, args, api_params, current_response, round_num, tool_results,
                   block_idx, responses, executed, exception>>

(***************************************************************************)
(* Lines 167-177: the round's model call returns `resp`.                   *)
(***************************************************************************)
RoundResponse(resp) ==
    /\ pc = "await_round"
    /\ current_response' = resp
    /\ responses' = Append(responses, resp)
    /\ IF ~WantsTools(resp)
       THEN /\ Return(ExtractText(resp))
            /\ UNCHANGED locals
       ELSE /\ messages' = Append(messages, AssistantTurn(resp.content))
            /\ LoopHead(round_num + 1, resp)
    /\ UNCHANGED <<earlier_calls, search, args, api_params, requests, executed, exception>>

\* ModelRaises with the API error caught and turned into a returned string.
ModelRaisesCaught(err) ==
    /\ pc \in {"await_initial", "await_round"}
    /\ Return("API error: " \o err)
    /\ UNCHANGED <<earlier_calls, search, args, api_params, current_response, locals, responses,
                   requests, executed, exception>>

(***************************************************************************)
(* Lines 92 and 167: messages.create raises; nothing catches it.           *)
(***************************************************************************)
ModelRaises(err) ==
    /\ pc \in {"await_initial", "await_round"}
    /\ pc' = "raised"
    /\ exception' = err
    /\ UNCHANGED <<earlier_calls, search, args, api_params, current_response, locals, responses,
                   requests, executed, result>>

Next ==
    \/ \E qh \in Questions, t \in Catalogs, tm \in BOOLEAN :
          GenerateResponse(qh[1], qh[2], t, tm)
    \/ pc = "await_initial" /\ \E resp \in Responses(Len(requests)) : InitialResponse(resp)
    \/ SkipBlock
    \/ \E out \in ToolOutputs : ExecuteToolReturns(out)
    \/ \E exc \in ToolErrors : ExecuteToolRaises(exc)
    \/ EndOfBlocks
    \/ pc = "await_round" /\ \E resp \in Responses(Len(requests)) : RoundResponse(resp)
    \/ \E err \in ApiErrors : ModelRaises(err)

Spec == Init /\ [][Next]_vars

(***************************************************************************)
(* The steps of a call in progress.  The code is synchronous: once a call  *)
(* has started it keeps running, and every call to the service or to a     *)
(* tool ends, by returning or by raising.                                  *)
(***************************************************************************)
InCallStep ==
    \/ pc = "await_initial" /\ \E resp \in Responses(Len(requests)) : InitialResponse(resp)
    \/ SkipBlock
    \/ \E out \in ToolOutputs : ExecuteToolReturns(out)
    \/ \E exc \in ToolErrors : ExecuteToolRaises(exc)
    \/ EndOfBlocks
    \/ pc = "await_round" /\ \E resp \in Responses(Len(requests)) : RoundResponse(resp)
    \/ \E err \in ApiErrors : ModelRaises(err)

\* The first call of generate_response on the engine.
FirstCall ==
    /\ pc = "idle"
    /\ \E qh \in Questions, t \in Catalogs, tm \in BOOLEAN :
          GenerateResponse(qh[1], qh[2], t, tm)

\* One call of generate_response, from its start to its end.
OneCall == FirstCall \/ InCallStep

FairSpec == Init /\ [][OneCall]_vars /\ WF_vars(InCallStep)

(***************************************************************************)
(* The content search tool (section 4.2 of the specification; its tests    *)
(* are tests/test_search_tool.py).  The search index answers with          *)
(* fragments and their metadata, with nothing, or with an error message.   *)
(***************************************************************************)
Titles == {"ML Course", "Intro Course"}
LessonNumbers == {1, 2}
FragmentText == "Content."
NO_RELEVANT_CONTENT == "No relevant content found."
SearchErrors == {"Search error: timeout"}

\* The metadata of one fragment: the lesson_number key may be missing.
Metadata ==
    {[course_title |-> t] : t \in Titles}
    \cup {[course_title |-> t, lesson_number |-> n] : t \in Titles, n \in LessonNumbers}

make_search_results(docs, metas) ==
    [documents |-> docs, metadata |-> metas, error |-> ""]

\* SearchResults.empty(msg); "" is no error.
SearchResultsEmpty(msg) ==
    [documents |-> <<>>, metadata |-> <<>>, error |-> msg]

\* The answers with one to MaxFragments fragments.
FragmentAnswers ==
    {make_search_results([i \in 1..Len(metas) |-> FragmentText], metas) :
        metas \in UNION {[1..k -> Metadata] : k \in 1..MaxFragments}}

\* "<course_title> - Lesson <n>", or "<course_title>" without a lesson.
SourceLabel(meta) ==
    IF "lesson_number" \in DOMAIN meta
    THEN meta.course_title \o " - Lesson " \o ToString(meta.lesson_number)
    ELSE meta.course_title

Sources(res) == [i \in 1..Len(res.documents) |-> SourceLabel(res.metadata[i])]

\* "[<label>]\n<content>"
FormatFragment(doc, meta) == "[" \o SourceLabel(meta) \o "]\n" \o doc

RECURSIVE FormatResults(_, _)
FormatResults(res, k) ==
    IF k = 0 THEN ""
    ELSE IF k = 1 THEN FormatFragment(res.documents[1], res.metadata[1])
    ELSE FormatResults(res, k - 1) \o "\n\n"
            \o FormatFragment(res.documents[k], res.metadata[k])

\* execute, the index answered with an error message: it is returned.
ExecuteSearchError(res) ==
    /\ res.error # ""
    /\ search_results' = res
    /\ tool_output' = res.error
    /\ UNCHANGED last_sources
    /\ UNCHANGED <<pc, args, api_params, current_response, locals, responses,
                   requests, executed, result, exception, earlier_calls>>

\* execute, the index found nothing: the fixed message is returned.
ExecuteNoResults(res) ==
    /\ res.error = ""
    /\ res.documents = <<>>
    /\ search_results' = res
    /\ tool_output' = NO_RELEVANT_CONTENT
    /\ UNCHANGED last_sources
    /\ UNCHANGED <<pc, args, api_params, current_response, locals, responses,
                   requests, executed, result, exception, earlier_calls>>

\* ExecuteFormats that adds the labels to those of the earlier calls.
ExecuteFormatsCumulative(res) ==
    /\ res.error = ""
    /\ res.documents # <<>>
    /\ search_results' = res
    /\ tool_output' = FormatResults(res, Len(res.documents))
    /\ last_sources' = last_sources \o Sources(res)
    /\ UNCHANGED <<pc, args, api_params, current_response, locals, responses,
                   requests, executed, result, exception, earlier_calls>>

\* execute, the index gave fragments: they are formatted, and their labels
\* replace last_sources.
ExecuteFormats(res) ==
    /\ res.error = ""
    /\ res.documents # <<>>
    /\ search_results' = res
    /\ tool_output' = FormatResults(res, Len(res.documents))
    /\ last_sources' = Sources(res)
    /\ UNCHANGED <<pc, args, api_params, current_response, locals, responses,
                   requests, executed, result, exception, earlier_calls>>

SearchNext ==
    \/ \E msg \in SearchErrors : ExecuteSearchError(SearchResultsEmpty(msg))
    \/ ExecuteNoResults(SearchResultsEmpty(""))
    \/ \E res \in FragmentAnswers : ExecuteFormats(res)

SearchSpec == Init /\ [][SearchNext]_vars

(***************************************************************************)
(* Vocabulary of the properties.                                           *)
(***************************************************************************)
StopIsToolUse(resp) == resp.stop_reason = "tool_use"

HasToolUseBlock(resp) ==
    \E i \in 1..Len(resp.content) : resp.content[i].type = "tool_use"

FirstIsToolUse(resp) ==
    Len(resp.content) >= 1 /\ resp.content[1].type = "tool_use"

FirstHasText(resp) ==
    Len(resp.content) >= 1 /\ "text" \in DOMAIN resp.content[1]

LastResponse == responses[Len(responses)]

\* The ids of the tool-use blocks of a content, in order.
RECURSIVE ToolUseIds(_)
ToolUseIds(content) ==
    IF Len(content) = 0 THEN <<>>
    ELSE (IF content[1].type = "tool_use" THEN <<content[1].id>> ELSE <<>>)
         \o ToolUseIds(Tail(content))

\* The ids of the tool-use blocks of the first k responses, in order.
RECURSIVE ToolUseIdsUpTo(_)
ToolUseIdsUpTo(k) ==
    IF k = 0 THEN <<>>
    ELSE ToolUseIdsUpTo(k - 1) \o ToolUseIds(responses[k].content)

ExecutedBlocks == [k \in 1..Len(executed) |-> executed[k].block]

Raised(k) == executed[k].outcome = "raised"

\* The tool results of round r: the content of the tool-result turn that
\* closes the messages of the round's request, or, while the round is still
\* dispatching, the results gathered so far.
RoundSent(r) == Len(requests) >= r + 2
LastTurn(req) == req.messages[Len(req.messages)]
RoundResults(r) ==
    IF RoundSent(r) THEN LastTurn(requests[r + 2]).content ELSE tool_results

\* C1: one call of generate_response issues at most 1 + MAX_TOOL_ROUNDS model
\* calls (3 with MAX_TOOL_ROUNDS = 2), whatever the responses and whatever
\* the tool dispatches do.
C1_AtMostOnePlusMaxRoundsCalls ==
    /\ Len(requests) <= 1 + MAX_TOOL_ROUNDS
    /\ Len(requests) <= 3

C1_Witness ==
    /\ pc = "returned"
    /\ Len(requests) = 1 + MAX_TOOL_ROUNDS
    /\ \E k \in 1..Len(executed) : Raised(k)
    /\ \E k \in 1..Len(executed) : ~Raised(k)

\* C2 as stated: when the initial response and the response of every round,
\* the last permitted round included, have stop_reason tool_use, the call
\* returns the round-exhaustion string after 1 + MAX_TOOL_ROUNDS model calls,
\* whatever the blocks of the last response.
C2_Original ==
    (/\ pc = "returned"
     /\ Len(responses) = 1 + MAX_TOOL_ROUNDS
     /\ \A i \in 1..Len(responses) : StopIsToolUse(responses[i]))
    => /\ result = "Could not generate a text response within the allowed tool-use rounds."
       /\ Len(requests) = 1 + MAX_TOOL_ROUNDS

\* C2 amended: when a tool manager was supplied and every response of the
\* call has stop_reason tool_use and at least one tool-use block, the call
\* makes exactly 1 + MAX_TOOL_ROUNDS model calls and returns what the first
\* block of the last response decides: the round-exhaustion string when it
\* is a tool-use block, its text when it has text; and the round-exhaustion
\* string differs from the empty-content string.
C2_Amended ==
    (/\ pc = "returned"
     /\ tool_manager
     /\ Len(responses) >= 1
     /\ \A i \in 1..Len(responses) :
            StopIsToolUse(responses[i]) /\ HasToolUseBlock(responses[i]))
    => /\ Len(requests) = 1 + MAX_TOOL_ROUNDS
       /\ Len(responses) = 1 + MAX_TOOL_ROUNDS
       /\ FirstIsToolUse(LastResponse) =>
            result = "Could not generate a text response within the allowed tool-use rounds."
       /\ FirstHasText(LastResponse) => result = LastResponse.content[1].text
       /\ ROUNDS_EXHAUSTED # "Received empty response from AI service."

C2_Witness ==
    /\ pc = "returned"
    /\ tool_manager
    /\ Len(responses) = 1 + MAX_TOOL_ROUNDS
    /\ \A i \in 1..Len(responses) :
           StopIsToolUse(responses[i]) /\ HasToolUseBlock(responses[i])
    /\ FirstIsToolUse(LastResponse)
    /\ result = ROUNDS_EXHAUSTED

\* The request of round r is the (r + 2)-th model call.
RoundRequest(r) == requests[r + 2]
RoundsSent == {r \in 0..(MAX_TOOL_ROUNDS - 1) : RoundSent(r)}

\* C3 as stated: the request of the final permitted round carries no tools
\* key and the request of every earlier round carries it.
C3_Original ==
    \A r \in RoundsSent :
        /\ r = MAX_TOOL_ROUNDS - 1 => "tools" \notin DOMAIN RoundRequest(r)
        /\ r < MAX_TOOL_ROUNDS - 1 => "tools" \in DOMAIN RoundRequest(r)

\* C3 amended: the request of the final permitted round carries no tools
\* key, and the request of an earlier round carries it exactly when the
\* caller supplied a non-empty tool catalog.
C3_Amended ==
    \A r \in RoundsSent :
        /\ r = MAX_TOOL_ROUNDS - 1 => "tools" \notin DOMAIN RoundRequest(r)
        /\ r < MAX_TOOL_ROUNDS - 1 =>
              ("tools" \in DOMAIN RoundRequest(r) <=> tools # <<>>)

C3_Witness ==
    /\ RoundSent(MAX_TOOL_ROUNDS - 1)
    /\ tools # <<>>
    /\ "tools" \in DOMAIN RoundRequest(0)
    /\ "tools" \notin DOMAIN RoundRequest(MAX_TOOL_ROUNDS - 1)

\* The tool result built for the k-th dispatch, which raised: error-tagged,
\* carrying the block's id and the exception's message.
IsErrorResultOf(tr, k) ==
    /\ tr.type = "tool_result"
    /\ tr.tool_use_id = executed[k].block
    /\ "is_error" \in DOMAIN tr
    /\ tr.is_error = TRUE
    /\ Contains(tr.content, executed[k].value)

\* C4: when a tool raises while a tool-use block is dispatched, in any
\* round, the exception does not leave generate_response; the tool result
\* built for the block is error-tagged, has the block's id and contains the
\* exception's message; that result is in the tool-result turn that closes
\* the messages of the next request; and when the model then answers with a
\* text, the call returns that text.
C4_ToolErrorBecomesResult ==
    /\ pc = "raised" => exception \in ApiErrors
    /\ \A k \in 1..Len(executed) :
          Raised(k) =>
            LET r == executed[k].round
            IN /\ \E j \in 1..Len(RoundResults(r)) :
                      IsErrorResultOf(RoundResults(r)[j], k)
               /\ (pc # "dispatch" \/ round_num # r) =>
                     /\ RoundSent(r)
                     /\ LastTurn(RoundRequest(r)).role = "user"
                     /\ LastTurn(RoundRequest(r)).ctype = "list"
    /\ (/\ pc = "returned"
        /\ \E k \in 1..Len(executed) : Raised(k)
        /\ ~StopIsToolUse(LastResponse)
        /\ FirstHasText(LastResponse))
       => result = LastResponse.content[1].text

C4_Witness ==
    /\ pc = "returned"
    /\ Len(executed) = 1
    /\ Raised(1)
    /\ executed[1].value = "Connection timeout"
    /\ Len(requests) = 2
    /\ IsErrorResultOf(LastTurn(requests[2]).content[1], 1)
    /\ result = "Answer 2"

\* C5: when k tool_use responses (1 <= k <= MAX_TOOL_ROUNDS), each with at
\* least one tool-use block, are followed by a response whose stop_reason is
\* not tool_use, the call is over with exactly 1 + k model calls made, none
\* after that response, and execute_tool was called exactly once for each
\* tool-use block of each of the k responses.
C5_CallsAndDispatches ==
    LET n == Len(responses)
    IN (/\ n >= 2
        /\ \A i \in 1..(n - 1) :
               StopIsToolUse(responses[i]) /\ HasToolUseBlock(responses[i])
        /\ ~StopIsToolUse(responses[n]))
       => /\ pc = "returned"
          /\ n - 1 <= MAX_TOOL_ROUNDS
          /\ Len(requests) = 1 + (n - 1)
          /\ ExecutedBlocks = ToolUseIdsUpTo(n - 1)

C5_Witness ==
    /\ pc = "returned"
    /\ Len(responses) = 1 + MAX_TOOL_ROUNDS
    /\ \A i \in 1..MAX_TOOL_ROUNDS :
           StopIsToolUse(responses[i]) /\ HasToolUseBlock(responses[i])
    /\ ~StopIsToolUse(LastResponse)
    /\ Len(executed) = 2 * MAX_TOOL_ROUNDS

\* A tool_use response without any tool-use block.
Malformed(resp) == StopIsToolUse(resp) /\ ~HasToolUseBlock(resp)

SaysMalformed(s) == Contains(s, "malformed") \/ Contains(s, "no tool_use")

\* C6 as stated: when a response has stop_reason tool_use and no tool-use
\* block, the call returns a string containing "malformed" or "no tool_use",
\* exactly one model call was made, and execute_tool was never called.
\* (Read in its favour: of the calls that were given a tool manager.)
C6_Original ==
    (/\ pc = "returned"
     /\ tool_manager
     /\ \E i \in 1..Len(responses) : Malformed(responses[i]))
    => /\ SaysMalformed(result)
       /\ Len(requests) = 1
       /\ executed = <<>>

\* C6 amended: when the initial response has stop_reason tool_use and no
\* tool-use block and a tool manager was supplied, the call returns a string
\* containing "malformed" or "no tool_use", exactly one model call was made,
\* and execute_tool was never called.  (Until it returns, the call is
\* passing over the blocks of that response.)
C6_Amended ==
    (/\ Len(responses) >= 1
     /\ tool_manager
     /\ Malformed(responses[1]))
    => /\ pc \in {"dispatch", "returned"}
       /\ pc = "returned" => SaysMalformed(result)
       /\ Len(requests) = 1
       /\ Len(responses) = 1
       /\ executed = <<>>

C6_Witness ==
    /\ pc = "returned"
    /\ tool_manager
    /\ Len(responses) = 1
    /\ Malformed(responses[1])
    /\ Len(responses[1].content) >= 1
    /\ result = "Received malformed tool_use response: no tool_use blocks found."

\* C7: when the stop_reason of the initial response is not tool_use, the
\* call is over with exactly one model call made and no tool dispatched, and
\* returns the extracted text of that response, with or without a tool
\* catalog, with or without a tool manager.
C7_DirectAnswer ==
    (/\ Len(responses) >= 1
     /\ ~StopIsToolUse(responses[1]))
    => /\ pc = "returned"
       /\ Len(requests) = 1
       /\ Len(responses) = 1
       /\ executed = <<>>
       /\ result = ExtractText(responses[1])

C7_Witness ==
    /\ pc = "returned"
    /\ tool_manager
    /\ tools # <<>>
    /\ responses = <<[stop_reason |-> "end_turn", content |-> <<TextBlock(1)>>]>>
    /\ result = "Answer 1"

\* C8: when the initial response has stop_reason tool_use and no tool
\* manager was supplied, the call is over with exactly one model call made
\* and no tool dispatched, and returns the fixed fallback string, which
\* mentions "tool manager".
C8_NoToolManagerFallback ==
    (/\ Len(responses) >= 1
     /\ ~tool_manager
     /\ StopIsToolUse(responses[1]))
    => /\ pc = "returned"
       /\ result = "Unable to search: tool manager not configured."
       /\ Contains(result, "tool manager")
       /\ Len(requests) = 1
       /\ Len(responses) = 1
       /\ executed = <<>>

C8_Witness ==
    /\ pc = "returned"
    /\ ~tool_manager
    /\ tools # <<>>
    /\ Len(responses) = 1
    /\ StopIsToolUse(responses[1])
    /\ HasToolUseBlock(responses[1])
    /\ result = NO_TOOL_MANAGER

\* C9: an exception raised by the model service, on the initial call or on
\* the call of any round, is not caught: the call ends with that exception
\* and no returned string (a string is returned only when every model call
\* was answered), and nothing more is called: the next step, if any, is a
\* new call of generate_response.
C9_ApiErrorPropagates ==
    /\ [](/\ pc = "raised" =>
               /\ exception \in ApiErrors
               /\ result = ""
               /\ Len(responses) = Len(requests) - 1
          /\ pc = "returned" =>
               /\ exception = ""
               /\ Len(responses) = Len(requests))
    /\ [][pc = "raised" => pc' = "await_initial" /\ Len(requests') = 1]_vars

C9_Witness ==
    /\ pc = "raised"
    /\ exception = "AuthenticationError"
    /\ Len(requests) = 1 + MAX_TOOL_ROUNDS
    /\ executed # <<>>

\* C10: a call of generate_response in progress always ends, and it ends by
\* returning a string unless the model service raised: from any response
\* and any tool outcome the call reaches its end, and it ends with an
\* exception only when a model call was left unanswered, by an API error.
InCall == pc \in {"await_initial", "dispatch", "await_round"}
CallOver == pc \in {"returned", "raised"}

C10_AlwaysAnAnswer ==
    /\ InCall ~> CallOver
    /\ [](pc = "raised" =>
            /\ exception \in ApiErrors
            /\ Len(responses) < Len(requests))
    /\ [](CallOver /\ Len(responses) = Len(requests) =>
            pc = "returned" /\ result \in STRING)

C10_Witness ==
    /\ pc = "returned"
    /\ Len(responses) = 1 + MAX_TOOL_ROUNDS
    /\ \E k \in 1..Len(executed) : Raised(k)
    /\ Len(LastResponse.content) >= 1
    /\ LastResponse.content[1].type = "thinking"
    /\ result = "Received unexpected response format from AI service."

\* The tool-result turns of a message list: the user turns whose content is
\* a list.
ToolResultTurns(msgs) ==
    SelectSeq(msgs, LAMBDA m : m.role = "user" /\ m.ctype = "list")

ResultIds(results) == [j \in 1..Len(results) |-> results[j].tool_use_id]

\* C11: the request of the n-th model call of one generate_response call
\* (n >= 2) contains exactly n - 1 user turns whose content is a list of
\* tool_result entries; the turn added in a round holds one entry per
\* tool-use block of the response that round dispatched, each with the id of
\* its block.
C11_ToolResultTurns ==
    \A n \in 2..Len(requests) :
        LET turns == ToolResultTurns(requests[n].messages)
        IN /\ Len(turns) = n - 1
           /\ \A j \in 1..Len(turns) :
                 /\ \A i \in 1..Len(turns[j].content) :
                       turns[j].content[i].type = "tool_result"
                 /\ ResultIds(turns[j].content) = ToolUseIds(responses[j].content)

\* One tool-use block with its id, then a text answer: the second request
\* has exactly one such turn, holding one tool_result with that id.
C11_Witness ==
    /\ pc = "returned"
    /\ Len(requests) = 2
    /\ responses[1].content = <<ToolUseBlock(1, 1)>>
    /\ ~StopIsToolUse(responses[2])
    /\ Len(ToolResultTurns(requests[2].messages)) = 1
    /\ ResultIds(ToolResultTurns(requests[2].messages)[1].content) = << <<"tu", 1, 1>> >>
    /\ result = "Answer 2"

\* The response of the n-th model call is the one the block came with.
BlockResponse(id) == id[2]

\* C12: the tool-use blocks of the response to the last permitted round's
\* request are never dispatched, and there are never more than
\* MAX_TOOL_ROUNDS rounds of dispatch; with MAX_TOOL_ROUNDS = 2 and three
\* tool_use responses of one tool-use block each there are 3 model calls,
\* 2 calls of execute_tool, and the round-exhaustion string is returned.
C12_LastResponseNotDispatched ==
    /\ \A k \in 1..Len(executed) :
          /\ executed[k].round < MAX_TOOL_ROUNDS
          /\ BlockResponse(executed[k].block) <= MAX_TOOL_ROUNDS
          /\ BlockResponse(executed[k].block) = executed[k].round + 1
    /\ round_num < MAX_TOOL_ROUNDS
    /\ (/\ pc = "returned"
        /\ Len(responses) = 3
        /\ \A i \in 1..3 :
              /\ StopIsToolUse(responses[i])
              /\ responses[i].content = <<ToolUseBlock(i, 1)>>)
       => /\ Len(requests) = 3
          /\ Len(executed) = 2
          /\ result = "Could not generate a text response within the allowed tool-use rounds."

C12_Witness ==
    /\ pc = "returned"
    /\ Len(responses) = 3
    /\ \A i \in 1..3 :
          /\ StopIsToolUse(responses[i])
          /\ responses[i].content = <<ToolUseBlock(i, 1)>>
    /\ Len(executed) = 2
    /\ executed[2].block = <<"tu", 2, 1>>

\* The outcome of extract_text, spelled out: decided by the first block.
ExtractedOutcome(resp) ==
    CASE Len(resp.content) = 0 -> "Received empty response from AI service."
      [] Len(resp.content) > 0 /\ "text" \in DOMAIN resp.content[1] ->
            resp.content[1].text
      [] Len(resp.content) > 0 /\ "text" \notin DOMAIN resp.content[1]
            /\ resp.content[1].type = "tool_use" ->
            "Could not generate a text response within the allowed tool-use rounds."
      [] OTHER -> "Received unexpected response format from AI service."

\* The call returned the extracted text of its last response: that response
\* ended the exchange, or the rounds ran out.
ReturnedExtract ==
    /\ pc = "returned"
    /\ Len(responses) >= 1
    /\ \/ ~StopIsToolUse(LastResponse)
       \/ tool_manager /\ Len(responses) = 1 + MAX_TOOL_ROUNDS

\* C13: extract_text gives one of four outcomes, decided in this order by
\* the first block alone: the empty-response string for an empty content,
\* the text of a first block that has text, the round-exhaustion string for
\* a first block that is a tool-use block, the unexpected-format string
\* otherwise; the three error strings are pairwise distinct.
C13_ExtractTextOutcomes ==
    /\ ReturnedExtract => result = ExtractedOutcome(LastResponse)
    /\ pc = "await_initial" =>
          \A resp \in Responses(Len(requests)) :
              ExtractText(resp) = ExtractedOutcome(resp)
    /\ EMPTY_RESPONSE # ROUNDS_EXHAUSTED
    /\ EMPTY_RESPONSE # UNEXPECTED_FORMAT
    /\ ROUNDS_EXHAUSTED # UNEXPECTED_FORMAT

C13_Witness ==
    /\ ReturnedExtract
    /\ Len(LastResponse.content) = 2
    /\ LastResponse.content[1].type = "thinking"
    /\ LastResponse.content[2].type = "text"
    /\ Len(responses) = 1
    /\ result = UNEXPECTED_FORMAT

\* The latest execute call returned fragments.
ReturnedFragments == search_results.documents # <<>>

\* C14: after an execute call that returned fragments, last_sources holds
\* exactly the labels of that call, "<course_title> - Lesson <n>" or
\* "<course_title>" alone for a fragment without lesson number, one per
\* fragment in order, and nothing of earlier calls.
C14_LastSourcesOfLatestCall ==
    ReturnedFragments =>
        /\ Len(last_sources) = Len(search_results.documents)
        /\ \A i \in 1..Len(last_sources) :
              LET meta == search_results.metadata[i]
              IN last_sources[i] =
                    IF "lesson_number" \in DOMAIN meta
                    THEN meta.course_title \o " - Lesson "
                            \o ToString(meta.lesson_number)
                    ELSE meta.course_title

\* A fragment with a lesson and one without, in this order.
C14_Witness ==
    /\ ReturnedFragments
    /\ last_sources = <<"ML Course - Lesson 2", "Intro Course">>
    /\ tool_output = "[ML Course - Lesson 2]\nContent.\n\n[Intro Course]\nContent."

\* The response to the request of the last permitted round has arrived.
FinalRoundAnswered == Len(responses) = 1 + MAX_TOOL_ROUNDS

MalformedAt(i) == i \in 1..Len(responses) /\ Malformed(responses[i])

\* C16 as stated, with a tool manager supplied: whenever any response
\* received, initial or of any round, the last permitted round included, has
\* stop_reason tool_use and no tool-use block, the call returns the
\* malformed-tool_use string, makes no model call after that response and
\* appends no tool-result turn for it.
C16_Original ==
    \A i \in 1..Len(responses) :
        (tool_manager /\ pc = "returned" /\ MalformedAt(i)) =>
            /\ result = MALFORMED_TOOL_USE
            /\ Len(requests) = i

\* C16, amended: whenever the initial response or the response of a round
\* before the last permitted one has stop_reason tool_use and no tool-use
\* block, and a tool manager was supplied, the call returns the
\* malformed-tool_use string, distinct from the other fixed strings, makes no
\* model call after that response and appends no tool-result turn for it.
\* The response of the last permitted round is not examined: its extracted
\* text is returned.
C16_Amended ==
    \A i \in 1..Len(responses) :
        (tool_manager /\ MalformedAt(i)) =>
            IF i <= MAX_TOOL_ROUNDS
            THEN /\ pc \in {"dispatch", "returned"}
                 /\ pc = "returned" =>
                       /\ result = "Received malformed tool_use response: no tool_use blocks found."
                       /\ result \notin {EMPTY_RESPONSE, ROUNDS_EXHAUSTED,
                                         UNEXPECTED_FORMAT, NO_TOOL_MANAGER}
                 /\ Len(requests) = i
                 /\ Len(responses) = i
                 /\ Len(messages) = 2 * i
                 /\ messages[Len(messages)].role = "assistant"
                 /\ Len(ToolResultTurns(messages)) = i - 1
            ELSE /\ pc = "returned"
                 /\ result = ExtractedOutcome(responses[i])
                 /\ result # "Received malformed tool_use response: no tool_use blocks found."

\* The response of round 0 is malformed: two model calls, one dispatch.
C16_Witness ==
    /\ tool_manager
    /\ pc = "returned"
    /\ MalformedAt(2)
    /\ Len(executed) >= 1
    /\ result = MALFORMED_TOOL_USE
    /\ Len(requests) = 2

\* The ids of the blocks dispatched in round r, in the order of dispatch.
DispatchedIn(r) ==
    LET ex == SelectSeq(executed, LAMBDA e : e.round = r)
    IN [k \in 1..Len(ex) |-> ex[k].block]

\* The blocks of the current response that the loop has passed.
BlocksPassed == SubSeq(current_response.content, 1, block_idx - 1)

\* C17: the tool-use blocks of a tool_use response are dispatched one at a
\* time in the order received, each exactly once; a dispatch that raises
\* does not stop the dispatch of the later blocks; the other blocks are
\* skipped; the round's one tool-result turn holds exactly one result per
\* tool-use block in the same order; and the response is taken for malformed
\* only when it has no tool-use block, not when every dispatch failed.
C17_OrderedDispatch ==
    /\ \A r \in RoundsSent :
          /\ DispatchedIn(r) = ToolUseIds(responses[r + 1].content)
          /\ ResultIds(RoundResults(r)) = ToolUseIds(responses[r + 1].content)
          /\ Len(ToolResultTurns(RoundRequest(r).messages)) = r + 1
    /\ pc = "dispatch" =>
          /\ DispatchedIn(round_num) = ToolUseIds(BlocksPassed)
          /\ ResultIds(tool_results) = ToolUseIds(BlocksPassed)
    /\ (pc = "returned" /\ tool_manager /\ result = MALFORMED_TOOL_USE) =>
          /\ ~HasToolUseBlock(LastResponse)
          /\ DispatchedIn(Len(responses) - 1) = <<>>

\* Two tool-use blocks: the first dispatch raised, the second was still
\* made, and the request of the round holds the two results in order.
C17_Witness ==
    /\ Len(requests) = 2
    /\ responses[1].content = <<ToolUseBlock(1, 1), ToolUseBlock(1, 2)>>
    /\ Len(executed) = 2
    /\ Raised(1)
    /\ ~Raised(2)
    /\ ResultIds(RoundResults(0)) = << <<"tu", 1, 1>>, <<"tu", 1, 2>> >>
    /\ "is_error" \in DOMAIN RoundResults(0)[1]
    /\ "is_error" \notin DOMAIN RoundResults(0)[2]

\* A model call is outstanding: issued and not answered.
CallOutstanding == Len(requests) > Len(responses)

\* This step dispatches a tool.
Dispatches == Len(executed') = Len(executed) + 1

\* This step issues the model call of a round.
IssuesRoundCall == pc # "await_round" /\ pc' = "await_round"

\* C18: within one call of generate_response the model calls and the tool
\* dispatches are strictly sequenced: a model call after the first is
\* issued only when every tool-use block of the response before it has been
\* dispatched and the results have been appended as one user turn, and no
\* tool is dispatched while a model call is outstanding.
C18_StrictSequencing ==
    [][/\ Dispatches => ~CallOutstanding /\ ~CallOutstanding'
       /\ IssuesRoundCall =>
             /\ ~CallOutstanding
             /\ CallOutstanding'
             /\ Len(requests') = Len(requests) + 1
             /\ UNCHANGED executed
             /\ DispatchedIn(round_num) = ToolUseIds(LastResponse.content)
             /\ Len(requests'[Len(requests')].messages) = Len(messages) + 1
             /\ LastTurn(requests'[Len(requests')]).role = "user"
             /\ ResultIds(LastTurn(requests'[Len(requests')]).content)
                   = ToolUseIds(LastResponse.content)]_vars

\* The call of round 1 is outstanding after a round-0 response with two
\* tool-use blocks and a round-1 response with one.
C18_Witness ==
    /\ pc = "await_round"
    /\ CallOutstanding
    /\ Len(requests) = 3
    /\ Len(executed) = 3
    /\ DispatchedIn(0) = << <<"tu", 1, 1>>, <<"tu", 1, 2>> >>
    /\ DispatchedIn(1) = << <<"tu", 2, 1>> >>

\* The roles of a message list alternate, starting with user.
Alternates(msgs) ==
    \A i \in 1..Len(msgs) :
        msgs[i].role = (IF i % 2 = 1 THEN "user" ELSE "assistant")

\* C19: the message list of every request of one call starts with the
\* query as a user turn and alternates user, assistant, user, ...; the list
\* only grows: the request of round r holds exactly 3 + 2r turns, the
\* previous request's list followed by one assistant turn (the content of
\* the tool_use response) and one user tool-result turn, no earlier turn
\* changed or removed.
C19_MessagesGrow ==
    /\ \A n \in 1..Len(requests) :
          LET msgs == requests[n].messages
          IN /\ msgs[1] = [role |-> "user", ctype |-> "str", content |-> query]
             /\ Alternates(msgs)
    /\ Len(requests) >= 1 => Len(requests[1].messages) = 1
    /\ \A r \in RoundsSent :
          LET msgs == RoundRequest(r).messages
              prev == requests[r + 1].messages
          IN /\ Len(msgs) = 3 + 2 * r
             /\ SubSeq(msgs, 1, Len(msgs) - 2) = prev
             /\ msgs[Len(msgs) - 1].role = "assistant"
             /\ msgs[Len(msgs) - 1].content = responses[r + 1].content
             /\ msgs[Len(msgs)].role = "user"
             /\ msgs[Len(msgs)].ctype = "list"

C19_Witness ==
    /\ RoundSent(1)
    /\ Len(RoundRequest(1).messages) = 5
    /\ Len(RoundRequest(0).messages) = 3
    /\ RoundRequest(1).messages[1].content = "Explain loops"
    /\ RoundRequest(1).messages[4].content = responses[2].content

\* The request of the n-th model call may carry the tools: the initial call,
\* or the call of a round before the last permitted one.
ToolsAllowedAt(n) == n = 1 \/ n - 2 < MAX_TOOL_ROUNDS - 1

\* C20: a request carries the tools key if and only if the caller supplied
\* a non-empty tool catalog and the request is the initial call or the call
\* of a round with round < MAX_TOOL_ROUNDS - 1; in every request
\* tool_choice = {type: auto} is there exactly when tools is, and tools,
\* when there, is the catalog the caller supplied.
C20_ToolsKey ==
    \A n \in 1..Len(requests) :
        LET req == requests[n]
        IN /\ "tools" \in DOMAIN req <=> (tools # <<>> /\ ToolsAllowedAt(n))
           /\ "tool_choice" \in DOMAIN req <=> "tools" \in DOMAIN req
           /\ "tools" \in DOMAIN req =>
                 /\ req.tools = tools
                 /\ req.tool_choice = [type |-> "auto"]

C20_Witness ==
    /\ Len(requests) = 3
    /\ tools = <<[name |-> "search_course_content"]>>
    /\ requests[1].tools = tools
    /\ requests[2].tool_choice = [type |-> "auto"]
    /\ DOMAIN requests[3] = {"model", "temperature", "max_tokens", "messages", "system"}

\* C21: the system content is fixed once per call and is the same in every
\* request of the call, initial and of every round: the instruction text
\* alone when no history or an empty one was given, the instruction text
\* followed by the history otherwise; the model, temperature and max_tokens
\* of every request are the same too.
C21_SystemFixed ==
    \A n \in 1..Len(requests) :
        /\ requests[n].system = requests[1].system
        /\ conversation_history = "" => requests[n].system = SYSTEM_PROMPT
        /\ conversation_history # "" =>
              /\ requests[n].system =
                    SYSTEM_PROMPT \o "\n\nPrevious conversation:\n"
                        \o conversation_history
              /\ Contains(requests[n].system, conversation_history)
        /\ requests[n].model = requests[1].model
        /\ requests[n].temperature = requests[1].temperature
        /\ requests[n].max_tokens = requests[1].max_tokens
        /\ requests[n].model = base_params.model
        /\ requests[n].temperature = base_params.temperature
        /\ requests[n].max_tokens = base_params.max_tokens

\* A call with a history that went through all the rounds.
C21_Witness ==
    /\ Len(requests) = 1 + MAX_TOOL_ROUNDS
    /\ conversation_history = "User asked X."
    /\ Contains(requests[1 + MAX_TOOL_ROUNDS].system, "User asked X.")
    /\ requests[2].system = requests[1].system

\* The results of the round of the k-th dispatch that carry the id of its
\* block.
ResultsOf(k) ==
    LET rs == RoundResults(executed[k].round)
    IN {j \in 1..Len(rs) : rs[j].tool_use_id = executed[k].block}

ResultOf(k) ==
    RoundResults(executed[k].round)[CHOOSE j \in ResultsOf(k) : TRUE]

C23_NoStateBetweenCalls ==
    earlier_calls =>
        /\ Len(requests) >= 1
        /\ requests[1].messages =
              <<[role |-> "user", ctype |-> "str", content |-> query]>>
        /\ \A n \in 1..Len(requests) :
              LET msgs == requests[n].messages
              IN /\ Len(msgs) = 2 * n - 1
                 /\ \A i \in 1..(n - 1) :
                       /\ msgs[2 * i] = [role |-> "assistant", ctype |-> "list",
                                         content |-> responses[i].content]
                       /\ msgs[2 * i + 1].role = "user"
                       /\ msgs[2 * i + 1].ctype = "list"
                       /\ ResultIds(msgs[2 * i + 1].content) = DispatchedIn(i - 1)
        /\ messages # <<>> =>
              /\ messages[1] = [role |-> "user", ctype |-> "str", content |-> query]
              /\ Len(messages) <= 2 * Len(requests)

\* A later call that went through all the rounds.
C23_Witness ==
    /\ earlier_calls
    /\ pc = "returned"
    /\ Len(requests) = 1 + MAX_TOOL_ROUNDS
    /\ Len(requests[1].messages) = 1
    /\ requests[1].messages[1].content = query
    /\ Len(requests[1 + MAX_TOOL_ROUNDS].messages) = 1 + 2 * MAX_TOOL_ROUNDS

====
